---------------------------- MODULE Spec2Model ----------------------------
(***************************************************************************)
(* SmartThings device history extractor                                    *)
(* (src/scripts/extract_smartthings_history.py).                           *)
(*                                                                         *)
(* The module models                                                       *)
(*   - calculate_drying_durations: sort, filter of paused events, scan for *)
(*     (power on, drying) pairs, matching of each start with an end event; *)
(*   - parse_to_dataframe: coercion of the time column and the sort;       *)
(*   - make_request / extract_all_history: retry loop and pagination.      *)
(*                                                                         *)
(* A data frame is a sequence of rows [time, text, row]; `row` stands for  *)
(* the pass-through attributes of the record (deviceId, deviceName, ...),  *)
(* and is the position at which the record arrived.                        *)
(***************************************************************************)
EXTENDS Integers, Sequences, FiniteSets

VARIABLES
    pc,             \* position of the caller: "parse", "call" (about to call
                    \* calculate_drying_durations) or "return"
    history,        \* history_data handed to parse_to_dataframe (raw records)
    df,             \* the DataFrame handed to calculate_drying_durations
    has_time,       \* 'time' in df.columns
    df_sorted,      \* local of calculate_drying_durations (line 242)
    df_filtered,    \* local of calculate_drying_durations (line 248)
    valid_starts,   \* local of calculate_drying_durations (line 253)
    end_events,     \* local of calculate_drying_durations (line 272)
    drying_cycles,  \* rows of the DataFrame calculate_drying_durations returns
    raised,         \* the exception the call ended with, "none" when it returned
    inserted,       \* number of paused events added to df since the first call
    cycles_before,  \* what the call returned before any paused event was added
    pages,          \* the server: pages[k] is the number of items of page k, which
                    \* links to page k + 1 unless it is the last
    epc,            \* position in extract_all_history: "idle", "while" (line 135),
                    \* "request" (line 139) or "done" (returned)
    url,            \* the page to request, NoUrl for None
    all_data,       \* line 119
    page_count,     \* line 133
    rpc,            \* position in make_request: "idle", "loop" or "returned"
    max_retries,    \* parameter of make_request
    attempt,        \* loop variable of line 71
    gets,           \* session.get calls issued by the running make_request
    log,            \* how each of them ended
    response_data   \* what make_request returned

detVars == <<pc, history, df, has_time, df_sorted, df_filtered, valid_starts,
             end_events, drying_cycles, raised, inserted, cycles_before>>

netVars == <<pages, epc, url, all_data, page_count, rpc, max_retries, attempt,
             gets, log, response_data>>

vars == <<detVars, netVars>>

-----------------------------------------------------------------------------
(* Bounds of the model. *)

\* longest frame handed to calculate_drying_durations
MaxLen == 3

\* timestamps are 1..MaxTime
MaxTime == 2

\* longest time-ordered log handed to calculate_drying_durations
MaxEvents == 4

\* most records handed to parse_to_dataframe
MaxRecords == 3

\* most paused events added to a frame between two calls
MaxInserted == 1

\* most pages the server holds
MaxPages == 2

\* most items on a page
MaxItems == 1

\* largest max_retries make_request is called with
MaxRetries == 3

-----------------------------------------------------------------------------
(* The event texts the code tests for; COOLING stands for any other text. *)

POWER_ON  == "Power of Dryer is On"
DRYING    == "Dryer Device status was Drying"
POWER_OFF == "Power of Dryer is Off"
PAUSED    == "Dryer Device status was Paused"
COOLING     == "Dryer Device status was Cooling"

Texts == {POWER_ON, DRYING, POWER_OFF, PAUSED, COOLING}

\* pandas' NaT: what to_datetime(errors="coerce") makes of an unparseable or
\* missing timestamp.  Every comparison with NaT is False.
NaT == -1

Times == 1..MaxTime

\* end_events['time'] > drying_start_time   (line 289)
TimeGt(a, b) == a # NaT /\ b # NaT /\ a > b

-----------------------------------------------------------------------------
(* DataFrame.sort_values('time'), lines 211 and 242.                       *)
(* The default kind is 'quicksort', which is not stable: rows with equal   *)
(* timestamps may come out in any order.  NaT rows are placed last         *)
(* (na_position='last'), in their original order.                          *)

\* the rows of s that may come first among the rows rest: one with the least
\* timestamp, or, when only NaT rows are left, the first of them
Leading(s, rest) ==
    LET timed == {i \in rest : s[i].time # NaT}
    IN  IF timed # {}
        THEN {i \in timed : \A j \in timed : s[i].time <= s[j].time}
        ELSE {i \in rest : \A j \in rest : i <= j}

RECURSIVE Orderings(_, _)
Orderings(s, rest) ==
    IF rest = {} THEN {<<>>}
    ELSE UNION {{<<s[i]>> \o t : t \in Orderings(s, rest \ {i})} : i \in Leading(s, rest)}

\* faulty variant of SortValues: the frame is left as it came
Unsorted(s) == {s}

\* the frames sort_values may return
SortValues(s) == Orderings(s, DOMAIN s)

-----------------------------------------------------------------------------
(* calculate_drying_durations, lines 235-336.                              *)

\* df_sorted[df_sorted['text'] != PAUSED].reset_index(drop=True), line 248
FilterPaused(s) == SelectSeq(s, LAMBDA e : e.text # PAUSED)

\* faulty variant of FindValidStarts: any later drying event confirms a power-on
EventuallyFollowedStarts(f) ==
    LET idx == {i \in 1..(Len(f) - 1) :
                   f[i].text = POWER_ON /\ \E j \in (i+1)..Len(f) : f[j].text = DRYING}
        Build[k \in 0..Len(f)] ==
            IF k = 0 THEN <<>>
            ELSE IF k \in idx
                 THEN Append(Build[k-1],
                        [power_on_time     |-> f[k].time,
                         drying_start_time |-> f[CHOOSE j \in (k+1)..Len(f) :
                                                    f[j].text = DRYING].time,
                         start_event       |-> f[CHOOSE j \in (k+1)..Len(f) :
                                                    f[j].text = DRYING],
                         power_on_event    |-> f[k]])
                 ELSE Build[k-1]
    IN  Build[Len(f)]

\* the loop of lines 255-269: for i in range(len(df_filtered) - 1)
FindValidStarts(f) ==
    LET Scan[k \in 0..Len(f)] ==
            IF k = 0 THEN <<>>
            ELSE IF k < Len(f) /\ f[k].text = POWER_ON /\ f[k+1].text = DRYING
                 THEN Append(Scan[k-1],
                        [power_on_time     |-> f[k].time,
                         drying_start_time |-> f[k+1].time,
                         start_event       |-> f[k+1],
                         power_on_event    |-> f[k]])
                 ELSE Scan[k-1]
    IN  Scan[Len(f)]

\* df_filtered[df_filtered['text'] == POWER_OFF], line 272
EndEvents(f) == SelectSeq(f, LAMBDA e : e.text = POWER_OFF)

\* faulty variant of MatchingEndEvents: >= in place of >
MatchingEndEventsNotStrict(ends, start) ==
    SelectSeq(ends, LAMBDA e : e.time # NaT /\ start # NaT /\ e.time >= start)

\* end_events[end_events['time'] > drying_start_time], line 289
MatchingEndEvents(ends, start) ==
    SelectSeq(ends, LAMBDA e : TimeGt(e.time, start))

\* faulty variant of FirstEndEvent: the last matching end event
LastEndEvent(m) == m[Len(m)]

\* matching_end_events.iloc[0], line 292
FirstEndEvent(m) == m[1]

\* the cycle record of lines 293-325; the durations are the Timedeltas of
\* lines 296 and 301, of which the record keeps rounded renderings
CycleRecord(start_info, end_event) ==
    [power_on_time     |-> start_info.power_on_time,
     drying_start_time |-> start_info.drying_start_time,
     cycle_end_time    |-> end_event.time,
     duration          |-> end_event.time - start_info.drying_start_time,
     total_duration    |-> end_event.time - start_info.power_on_time,
     start_event       |-> start_info.start_event,
     end_event         |-> end_event]

\* the loop of lines 282-327
MatchCycles(starts, ends) ==
    LET Loop[k \in 0..Len(starts)] ==
            IF k = 0 THEN <<>>
            ELSE LET m == MatchingEndEvents(ends, starts[k].drying_start_time)
                 IN  IF m # <<>>
                     THEN Append(Loop[k-1], CycleRecord(starts[k], FirstEndEvent(m)))
                     ELSE Loop[k-1]
    IN  Loop[Len(starts)]

\* the DataFrame returned for the sorted frame s; the early returns of lines
\* 274-276 and 329-331 return an empty frame, as the loop does on their inputs
CyclesOf(s) ==
    MatchCycles(FindValidStarts(FilterPaused(s)), EndEvents(FilterPaused(s)))

\* one call of calculate_drying_durations(df); every frame has the 'text' column
CalculateDryingDurations ==
    /\ pc = "call"
    /\ IF df = <<>> \/ ~has_time
       THEN \* line 235: df.empty, or no 'time' column
            /\ df_sorted' = <<>>
            /\ df_filtered' = <<>>
            /\ valid_starts' = <<>>
            /\ end_events' = <<>>
            /\ drying_cycles' = <<>>
       ELSE \E s \in SortValues(df) :
            /\ df_sorted' = s
            /\ df_filtered' = FilterPaused(s)
            /\ valid_starts' = FindValidStarts(FilterPaused(s))
            /\ end_events' = EndEvents(FilterPaused(s))
            /\ drying_cycles' = CyclesOf(s)
    /\ raised' = "none"
    /\ pc' = "return"
    /\ cycles_before' = IF inserted = 0 THEN drying_cycles' ELSE cycles_before
    /\ UNCHANGED <<history, df, has_time, inserted>>
    /\ UNCHANGED netVars

-----------------------------------------------------------------------------
(* parse_to_dataframe, lines 176-218.                                      *)

\* pd.to_datetime(df['time'], errors="coerce", utc=True), lines 198 and 202:
\* a timestamp that cannot be parsed, or a record without the field, gives NaT
ToDatetime(r) == IF r.shape = "timestamp" THEN r.epoch ELSE NaT

\* faulty variant of Normalize: records without a timestamp are left out
DropUnresolved(h) ==
    LET kept == SelectSeq(h, LAMBDA r : r.shape = "timestamp")
    IN  [i \in DOMAIN kept |-> [time |-> kept[i].epoch, text |-> kept[i].text,
                                row |-> kept[i].row]]

\* json_normalize and the conversion loop of lines 183-207: one row per record
Normalize(h) ==
    [i \in DOMAIN h |-> [time |-> ToDatetime(h[i]), text |-> h[i].text, row |-> h[i].row]]

\* "time" in df.columns, line 210: some record carries the field
HasTimeColumn(h) == \E i \in DOMAIN h : h[i].shape # "absent"

ParseToDataframe ==
    /\ pc = "parse"
    /\ IF history = <<>>
       THEN \* line 176: an empty DataFrame
            /\ df' = <<>>
            /\ has_time' = FALSE
       ELSE /\ has_time' = HasTimeColumn(history)
            /\ IF HasTimeColumn(history)
               THEN df' \in SortValues(Normalize(history))
               ELSE df' = Normalize(history)
    /\ pc' = "call"
    /\ UNCHANGED <<history, df_sorted, df_filtered, valid_starts, end_events,
                   drying_cycles, raised, inserted, cycles_before>>
    /\ UNCHANGED netVars

-----------------------------------------------------------------------------
(* make_request, lines 60-97, and extract_all_history, lines 99-164.       *)
(* time.sleep (lines 83, 94, 159) changes no state and is left out.        *)

\* url = None
NoUrl == 0

\* make_request's default max_retries, line 60
DefaultMaxRetries == 3

\* the value None returned by make_request
None == [json |-> FALSE, items |-> <<>>, next |-> NoUrl]

\* the items of page k
ItemsOf(k) == [i \in 1..pages[k] |-> <<k, i>>]

\* response.json() of page k: its items and, unless it is the last, the link
\* _links.next.href
PageBody(k) ==
    [json |-> TRUE, items |-> ItemsOf(k),
     next |-> IF k < Len(pages) THEN k + 1 ELSE NoUrl]

\* faulty variant of InRange: one attempt more than range(max_retries)
InRangeOffByOne(a, m) == a <= m

\* for attempt in range(max_retries), line 71
InRange(a, m) == a < m

\* lines 74-77: status 200 with a JSON body, return response.json()
Respond200 ==
    /\ rpc = "loop" /\ InRange(attempt, max_retries)
    /\ gets' = gets + 1
    /\ log' = Append(log, "200")
    /\ response_data' = PageBody(url)
    /\ rpc' = "returned"
    /\ UNCHANGED <<pages, epc, url, all_data, page_count, max_retries, attempt>>
    /\ UNCHANGED detVars

\* lines 78-84: status 429, wait and continue with the next attempt
Respond429 ==
    /\ rpc = "loop" /\ InRange(attempt, max_retries)
    /\ gets' = gets + 1
    /\ log' = Append(log, "429")
    /\ attempt' = attempt + 1
    /\ UNCHANGED <<pages, epc, url, all_data, page_count, max_retries, rpc,
                   response_data>>
    /\ UNCHANGED detVars

\* lines 85-89: any other status, return None
RespondOther ==
    /\ rpc = "loop" /\ InRange(attempt, max_retries)
    /\ gets' = gets + 1
    /\ log' = Append(log, "500")
    /\ response_data' = None
    /\ rpc' = "returned"
    /\ UNCHANGED <<pages, epc, url, all_data, page_count, max_retries, attempt>>
    /\ UNCHANGED detVars

\* lines 91-95: a RequestException is raised inside the try block, by
\* session.get or by response.json() on a 200 body that is not JSON (requests'
\* JSONDecodeError is a RequestException); with or without the wait of line 94
\* the loop goes on to its next attempt
RequestException ==
    /\ rpc = "loop" /\ InRange(attempt, max_retries)
    /\ gets' = gets + 1
    /\ log' = Append(log, "RequestException")
    /\ attempt' = attempt + 1
    /\ UNCHANGED <<pages, epc, url, all_data, page_count, max_retries, rpc,
                   response_data>>
    /\ UNCHANGED detVars

\* line 97: the loop is over, return None
RetriesExhausted ==
    /\ rpc = "loop" /\ ~InRange(attempt, max_retries)
    /\ response_data' = None
    /\ rpc' = "returned"
    /\ UNCHANGED <<pages, epc, url, all_data, page_count, max_retries, attempt,
                   gets, log>>
    /\ UNCHANGED detVars

MakeRequest ==
    \/ Respond200
    \/ Respond429
    \/ RespondOther
    \/ RequestException
    \/ RetriesExhausted

\* lines 135-139: while url, count the page and call make_request(url)
BeginPage ==
    /\ epc = "while" /\ url # NoUrl
    /\ page_count' = page_count + 1
    /\ max_retries' = DefaultMaxRetries
    /\ attempt' = 0
    /\ gets' = 0
    /\ log' = <<>>
    /\ rpc' = "loop"
    /\ epc' = "request"
    /\ UNCHANGED <<pages, url, all_data, response_data>>
    /\ UNCHANGED detVars

\* lines 141-156: break when the request failed, else add the items of the
\* page and follow its next link
EndPage ==
    /\ epc = "request" /\ rpc = "returned"
    /\ IF response_data = None
       THEN /\ epc' = "done"
            /\ UNCHANGED <<all_data, url>>
       ELSE /\ all_data' = all_data \o response_data.items
            /\ url' = response_data.next
            /\ epc' = "while"
    /\ rpc' = "idle"
    /\ UNCHANGED <<pages, page_count, max_retries, attempt, gets, log,
                   response_data>>
    /\ UNCHANGED detVars

\* lines 135 and 161-164: url is None, return all_data
ReturnAllData ==
    /\ epc = "while" /\ url = NoUrl
    /\ epc' = "done"
    /\ UNCHANGED <<pages, url, all_data, page_count, rpc, max_retries, attempt,
                   gets, log, response_data>>
    /\ UNCHANGED detVars

-----------------------------------------------------------------------------
(* Inputs. *)

Row(t, x, r) == [time |-> t, text |-> x, row |-> r]

\* the frame of the rows f[1], f[2], ... (f[i] a pair of a timestamp and a
\* text), numbered in their order of arrival
FrameOf(f) == [i \in DOMAIN f |-> Row(f[i][1], f[i][2], i)]

\* the time-ordered log with the texts x, where tie[i] says that event i has
\* the timestamp of the event before it
LogOf(x, tie) ==
    [i \in DOMAIN x |->
        Row(1 + Cardinality({j \in 2..i : ~tie[j]}), x[i], i)]

\* the raw records: a timestamp, a value that does not parse, or no field
RawTimes == {<<"timestamp", t>> : t \in Times} \cup {<<"garbage", NaT>>, <<"absent", NaT>>}

HistoryOf(f) ==
    [i \in DOMAIN f |->
        [shape |-> f[i][1][1], epoch |-> f[i][1][2], text |-> f[i][2], row |-> i]]

\* a frame with one more paused event, at position k + 1, with timestamp t
InsertAt(s, k, t) ==
    SubSeq(s, 1, k) \o <<Row(t, PAUSED, Len(s) + 1)>> \o SubSeq(s, k + 1, Len(s))

\* the caller adds a paused event to the history and runs the detector again
InsertPaused ==
    /\ pc = "return"
    /\ inserted < MaxInserted
    /\ \E k \in 0..Len(df), t \in Times \cup {NaT} : df' = InsertAt(df, k, t)
    /\ inserted' = inserted + 1
    /\ pc' = "call"
    /\ UNCHANGED <<history, has_time, df_sorted, df_filtered, valid_starts,
                   end_events, drying_cycles, raised, cycles_before>>
    /\ UNCHANGED netVars

InitLocals ==
    /\ df_sorted = <<>>
    /\ df_filtered = <<>>
    /\ valid_starts = <<>>
    /\ end_events = <<>>
    /\ drying_cycles = <<>>
    /\ raised = "none"
    /\ inserted = 0
    /\ cycles_before = <<>>
    /\ pages = <<>>
    /\ epc = "idle"
    /\ url = NoUrl
    /\ all_data = <<>>
    /\ page_count = 0
    /\ rpc = "idle"
    /\ max_retries = 0
    /\ attempt = 0
    /\ gets = 0
    /\ log = <<>>
    /\ response_data = None

\* calculate_drying_durations called on any frame: any order, any timestamps
InitDet ==
    /\ pc = "call"
    /\ history = <<>>
    /\ has_time = TRUE
    /\ \E n \in 0..MaxLen : \E f \in [1..n -> (Times \cup {NaT}) \X Texts] :
          df = FrameOf(f)
    /\ InitLocals

NextDet == CalculateDryingDurations

SpecDet == InitDet /\ [][NextDet]_vars

\* the same calls, followed by calls on the frame with paused events added
NextIns == CalculateDryingDurations \/ InsertPaused

SpecIns == InitDet /\ [][NextIns]_vars

\* calculate_drying_durations called on a log that is in time order
InitLog ==
    /\ pc = "call"
    /\ history = <<>>
    /\ has_time = TRUE
    /\ \E n \in 0..MaxEvents : \E x \in [1..n -> Texts], tie \in [2..n -> BOOLEAN] :
          df = LogOf(x, tie)
    /\ InitLocals

SpecLog == InitLog /\ [][NextDet]_vars

\* the same call on a longer log whose timestamps all differ
InitLong ==
    /\ pc = "call"
    /\ history = <<>>
    /\ has_time = TRUE
    /\ \E n \in 0..(MaxEvents + 1) : \E x \in [1..n -> Texts] :
          df = LogOf(x, [j \in 2..n |-> FALSE])
    /\ InitLocals

SpecLong == InitLong /\ [][NextDet]_vars

\* main: parse_to_dataframe(history_data), then calculate_drying_durations
InitParse ==
    /\ pc = "parse"
    /\ \E n \in 0..MaxRecords : \E f \in [1..n -> RawTimes \X Texts] :
          history = HistoryOf(f)
    /\ df = <<>>
    /\ has_time = FALSE
    /\ InitLocals

NextParse == ParseToDataframe \/ CalculateDryingDurations

SpecParse == InitParse /\ [][NextParse]_vars

InitDetIdle ==
    /\ pc = "idle"
    /\ history = <<>>
    /\ df = <<>>
    /\ has_time = FALSE
    /\ df_sorted = <<>>
    /\ df_filtered = <<>>
    /\ valid_starts = <<>>
    /\ end_events = <<>>
    /\ drying_cycles = <<>>
    /\ raised = "none"
    /\ inserted = 0
    /\ cycles_before = <<>>

\* make_request(url, max_retries) called for a page of the server
InitReq ==
    /\ InitDetIdle
    /\ \E n \in 1..MaxPages : pages \in [1..n -> 0..MaxItems]
    /\ url \in 1..Len(pages)
    /\ max_retries \in 0..MaxRetries
    /\ epc = "idle"
    /\ all_data = <<>>
    /\ page_count = 0
    /\ rpc = "loop"
    /\ attempt = 0
    /\ gets = 0
    /\ log = <<>>
    /\ response_data = None

NextReq == MakeRequest

\* every attempt ends: session.get has a timeout and the waits are finite
SpecReq == InitReq /\ [][NextReq]_vars /\ WF_vars(NextReq)

\* extract_all_history called; the initial URL is that of page 1
InitNet ==
    /\ InitDetIdle
    /\ \E n \in 1..MaxPages : pages \in [1..n -> 0..MaxItems]
    /\ url = 1
    /\ max_retries = DefaultMaxRetries
    /\ epc = "while"
    /\ all_data = <<>>
    /\ page_count = 0
    /\ rpc = "idle"
    /\ attempt = 0
    /\ gets = 0
    /\ log = <<>>
    /\ response_data = None

NextNet == BeginPage \/ MakeRequest \/ EndPage \/ ReturnAllData

SpecNet == InitNet /\ [][NextNet]_vars /\ WF_vars(NextNet)


-----------------------------------------------------------------------------
(* Helpers of the properties. *)

\* s is in ascending order of time, the rows without a timestamp last
IsAscending(s) ==
    \A i, j \in DOMAIN s : i < j =>
        /\ ~TimeGt(s[i].time, s[j].time)
        /\ (s[i].time = NaT => s[j].time = NaT)

\* the position in frame s of the row that arrived as number r
PositionOf(s, r) == CHOOSE i \in DOMAIN s : s[i].row = r

\* t holds the rows of s, with ties of the timestamp in the order of s
IsStableSortOf(s, t) ==
    \A i, j \in DOMAIN t : (i < j /\ t[i].time = t[j].time) =>
        PositionOf(s, t[i].row) < PositionOf(s, t[j].row)

\* the positions of df_filtered at which a power-on is followed at once by drying
QualifyingPairs ==
    {i \in 1..(Len(df_filtered) - 1) :
        df_filtered[i].text = POWER_ON /\ df_filtered[i + 1].text = DRYING}

\* the end events of df_filtered that come strictly after time t
EndsAfter(t) ==
    {i \in DOMAIN df_filtered :
        df_filtered[i].text = POWER_OFF /\ TimeGt(df_filtered[i].time, t)}

-----------------------------------------------------------------------------
(* C1: no end event closes two cycles: any two distinct cycles returned by *)
(* calculate_drying_durations have distinct cycle_end_time values.         *)
NoEndReuse ==
    pc = "return" =>
        \A i, j \in DOMAIN drying_cycles :
            i # j => drying_cycles[i].cycle_end_time # drying_cycles[j].cycle_end_time

(* C2: the end of every returned cycle is the earliest power-off event of  *)
(* the filtered sequence whose timestamp is strictly greater than the      *)
(* cycle's drying_start_time: no power-off lies strictly between the two.  *)
EarliestEndIsMatched ==
    pc = "return" =>
        \A k \in DOMAIN drying_cycles :
            LET c == drying_cycles[k]
            IN  /\ \E i \in EndsAfter(c.drying_start_time) :
                       /\ df_filtered[i] = c.end_event
                       /\ df_filtered[i].time = c.cycle_end_time
                /\ \A i \in EndsAfter(c.drying_start_time) :
                       df_filtered[i].time >= c.cycle_end_time

\* C2's case: a cycle whose start is followed by two power-offs at different times
EarliestEndWitness ==
    /\ pc = "return"
    /\ \E k \in DOMAIN drying_cycles :
          \E i, j \in EndsAfter(drying_cycles[k].drying_start_time) :
              df_filtered[i].time < df_filtered[j].time

(* C3: for every returned cycle, on any input (any order, duplicate        *)
(* timestamps), power_on_time <= drying_start_time < cycle_end_time, so    *)
(* the drying duration is positive and the total duration is at least it.  *)
OrderInvariant ==
    pc = "return" =>
        \A k \in DOMAIN drying_cycles :
            LET c == drying_cycles[k]
            IN  /\ c.power_on_time # NaT /\ c.drying_start_time # NaT
                /\ c.cycle_end_time # NaT
                /\ c.power_on_time <= c.drying_start_time
                /\ c.drying_start_time < c.cycle_end_time
                /\ c.duration > 0
                /\ c.total_duration >= c.duration

\* C3's case: a cycle found in a frame given out of order, with a repeated timestamp
OrderInvariantWitness ==
    /\ pc = "return"
    /\ drying_cycles # <<>>
    /\ ~IsAscending(df)
    /\ \E i, j \in DOMAIN df : i # j /\ df[i].time = df[j].time

(* C4: a start is recorded for position i of the filtered sequence if and  *)
(* only if event i is a power-on and event i+1 is the drying status; each  *)
(* such pair is recorded once, in order, and a power-on followed by any    *)
(* other event gives no cycle, even when a drying event comes later.       *)
StartsArePositional ==
    pc = "return" =>
        /\ Len(valid_starts) = Cardinality(QualifyingPairs)
        /\ \A k \in DOMAIN valid_starts :
               \E i \in QualifyingPairs :
                   /\ valid_starts[k].power_on_event = df_filtered[i]
                   /\ valid_starts[k].start_event = df_filtered[i + 1]
                   /\ valid_starts[k].power_on_time = df_filtered[i].time
                   /\ valid_starts[k].drying_start_time = df_filtered[i + 1].time
        /\ \A k, l \in DOMAIN valid_starts :
               k < l => PositionOf(df_filtered, valid_starts[k].power_on_event.row)
                            < PositionOf(df_filtered, valid_starts[l].power_on_event.row)
        /\ \A k \in DOMAIN drying_cycles :
               \E i \in QualifyingPairs :
                   drying_cycles[k].start_event = df_filtered[i + 1]

\* C4's case: a power-on, then another event, then drying and a later power-off,
\* and no cycle
StartsArePositionalWitness ==
    /\ pc = "return"
    /\ drying_cycles = <<>>
    /\ \E i, j, e \in DOMAIN df_filtered :
          /\ i + 1 < j /\ j < e
          /\ df_filtered[i].text = POWER_ON
          /\ df_filtered[i + 1].text = COOLING
          /\ df_filtered[j].text = DRYING
          /\ df_filtered[e].text = POWER_OFF
          /\ TimeGt(df_filtered[e].time, df_filtered[j].time)

(* C5: adding paused events to the event sequence leaves the returned      *)
(* cycles (times, durations, matched events) unchanged.                    *)
PausedEventsAreTransparent ==
    (pc = "return" /\ inserted > 0) => drying_cycles = cycles_before

SortIsStable ==
    /\ (pc # "parse" /\ has_time) =>
           \A i, j \in DOMAIN df :
               (i < j /\ df[i].time = df[j].time) => df[i].row < df[j].row
    /\ (pc = "return" /\ has_time /\ df # <<>>) => IsStableSortOf(df, df_sorted)

\* all items of all pages of the server, in page order
RECURSIVE ItemsUpTo(_)
ItemsUpTo(k) == IF k = 0 THEN <<>> ELSE ItemsUpTo(k - 1) \o ItemsOf(k)

Retried == {"429", "RequestException"}

(* C9: extract_all_history returns all history records: the returned list  *)
(* is the concatenation, in page order, of the items of every page of the  *)
(* chain of next links that starts at the initial URL.                     *)
ExtractReturnsAllHistory ==
    epc = "done" => all_data = ItemsUpTo(Len(pages))

\* what holds of a call of make_request at every moment
MakeRequestState ==
    /\ gets <= max_retries
    /\ Len(log) = gets
    /\ \A i \in 1..(Len(log) - 1) : log[i] \in Retried
    /\ rpc = "loop" => \A i \in DOMAIN log : log[i] \in Retried
    /\ rpc = "returned" =>
          /\ response_data # None <=> (log # <<>> /\ log[Len(log)] = "200")
          /\ response_data # None => response_data = PageBody(url)
          /\ response_data = None =>
                \/ log # <<>> /\ log[Len(log)] = "500"
                \/ gets = max_retries /\ \A i \in DOMAIN log : log[i] \in Retried

(* C10: make_request issues at most max_retries GETs and then returns; it  *)
(* returns the JSON body of the first attempt answered with 200, retries   *)
(* only after a 429 or a request exception, returns None at once on any    *)
(* other status, and returns None when max_retries attempts gave no 200.   *)
MakeRequestContract == []MakeRequestState /\ <>(rpc = "returned")

\* C10's case: a body returned by the third attempt, after a 429 and an exception
MakeRequestWitness ==
    /\ rpc = "returned"
    /\ response_data # None
    /\ gets >= 3
    /\ \E i, j \in DOMAIN log : log[i] = "429" /\ log[j] = "RequestException"

=============================================================================
